---- MODULE Spec2Model ----
(***************************************************************************)
(* Model of the CBT review board: the FastAPI session runner               *)
(* (api_server.py), the LangGraph supervisor graph (graph/supervisor.py)   *)
(* and its nodes (graph/agents.py).                                        *)
(*                                                                         *)
(* Scores are percentages (0.85 is 85).  Strings the code cuts or tests    *)
(* (user_intent) are sequences of tokens; the literal "REVISION            *)
(* INSTRUCTION" is one token.                                              *)
(*                                                                         *)
(* The graph runs with a checkpointer: invoke(input) writes the input      *)
(* over the thread's stored channels, saves a checkpoint, and then saves   *)
(* one checkpoint after every node whose step (node body, then its         *)
(* conditional edge) completed.  A step that raises commits nothing.       *)
(* Keys of an input or of a node's update that ProjectState does not       *)
(* declare ("status", "final_output") are not channels and are dropped.    *)
(*                                                                         *)
(* The checkpoint table of a session is kept as its latest checkpoint's    *)
(* channel values (NoState while the session has no checkpoint).  The      *)
(* table with all its rows and the endpoints that read it are StoreSpec.   *)
(*                                                                         *)
(* Spec and LiveSpec serve one session; IsolationSpec starts two sessions  *)
(* side by side; RequestSpec adds the requests the server turns away and   *)
(* a store file left by the command-line entry point; ProcessSpec adds     *)
(* the import of the module and the restart of the process; StoredSpec     *)
(* serves a store file an earlier life of the process left (a finalized    *)
(* session, a session parked one draft short of the iteration cap);        *)
(* McpSpec is run_cbt_workflow of mcp_server.py over the same graph;       *)
(* FeedSpec is the status stream with the payload it yielded last.         *)
(***************************************************************************)
EXTENDS Integers, Sequences, FiniteSets, TLC

\* ---------------------------------------------------------------- bounds
\* Thread objects ever created.
MaxThreads == 2
\* The graph is invoked without a recursion_limit in its config, so the
\* library's default applies: an invoke that has not reached END after that
\* many steps raises GraphRecursionError.  The default is 25; the model follows
\* each invoke for RecursionLimit steps.
RecursionLimit == 4

Sessions == {"s1"}
\* The sessions the store and the tables have room for: IsolationSpec starts
\* them all, the other specifications make their requests for Sessions.
AllSessions == Sessions \cup {"s2"}
Tids == 1..MaxThreads

\* ------------------------------------------------------- program constants
SAFETY_THRESHOLD == 85
EMPATHY_THRESHOLD == 70
MAX_ITERATIONS == 20
PENALTY_SCORE == 20

\* ------------------------------------------------------------ input sets
RI == "REVISION INSTRUCTION"
WS == " "
Prompts == { <<"anxiety">> }
SuggestedContents == { <<"validate">> }
Decisions == {"Approve", "Reject"}
\* A decision the request model does not admit.
InvalidDecisions == {"Maybe"}
\* Texts the drafting LLM may return: an empty completion, a warm text, and a
\* text holding a prohibited phrase.
Drafts == {"", "calm", "dosage"}
\* Scores the safety LLM may return: just below the threshold, and on it.
SafetyScores == {SAFETY_THRESHOLD - 1, SAFETY_THRESHOLD}

\* ------------------------------------------------------------- strings
RECURSIVE IndexOfRI(_, _)
IndexOfRI(s, i) ==
    IF i > Len(s) THEN 0
    ELSE IF s[i] = RI THEN i ELSE IndexOfRI(s, i + 1)

\* user_intent.split("REVISION INSTRUCTION")[0]
SplitHead(s) ==
    LET i == IndexOfRI(s, 1) IN IF i = 0 THEN s ELSE SubSeq(s, 1, i - 1)

RECURSIVE LStrip(_)
LStrip(s) == IF s # <<>> /\ Head(s) = WS THEN LStrip(Tail(s)) ELSE s

RECURSIVE RStrip(_)
RStrip(s) ==
    IF s # <<>> /\ s[Len(s)] = WS THEN RStrip(SubSeq(s, 1, Len(s) - 1)) ELSE s

\* str.strip()
Strip(s) == RStrip(LStrip(s))

\* f"REVISION INSTRUCTION (Based on Rejected Draft): {suggested_content}"
RevisionIntent(text) ==
    <<RI, WS, "(Based on Rejected Draft)", ":", WS>> \o text

\* current_intent.startswith("REVISION INSTRUCTION:")
StartsWithRevisionTag(s) == Len(s) >= 2 /\ s[1] = RI /\ s[2] = ":"

\* ------------------------------------------------------- external agents
PROHIBITED_TERMS == {"dosage"}
ContainsProhibited(draft) == draft \in PROHIBITED_TERMS

\* (compound + 1) / 2 of the VADER sentiment of the draft; the empty text is
\* neutral (compound 0).
Vader(draft) ==
    CASE draft = "" -> 50
      [] draft = "calm" -> 80
      [] draft = "dosage" -> 80

\* ---------------------------------------------------------------- state
NoState == [none |-> TRUE]

create_initial_state(user_prompt, thread_id) ==
    [ user_intent |-> user_prompt,
      thread_id |-> thread_id,
      current_draft |-> "",
      draft_history |-> <<>>,
      iteration_count |-> 0,
      active_node |-> "Drafting",
      safety_metric |-> 0,
      empathy_metric |-> 0,
      next_node |-> "openai",
      human_decision |-> "REVIEW_REQUIRED" ]

\* The state the command-line entry point (main.py) hands to the same graph
\* over the same store file: it holds no thread_id.
cli_initial_state(user_prompt) ==
    [ user_intent |-> user_prompt,
      current_draft |-> "",
      draft_history |-> <<>>,
      iteration_count |-> 0,
      safety_metric |-> 0,
      empathy_metric |-> 0,
      human_decision |-> "N/A" ]

\* get_state_from_checkpoint raises HTTPException(500): the channel values
\* lack the key thread_id.
Malformed(state) == "thread_id" \notin DOMAIN state

\* state.get("intent_signals", []): no function of the program writes the key.
intent_signals(state) ==
    IF "intent_signals" \in DOMAIN state THEN state.intent_signals ELSE <<>>

\* The keys of ProjectState: the channels of StateGraph(ProjectState).
ProjectStateKeys ==
    { "user_intent", "thread_id", "model_choice", "current_draft",
      "draft_history", "iteration_count", "active_node", "next_node",
      "safety_metric", "empathy_metric", "safety_report", "critic_notes",
      "blackboard_notes", "intent_signals", "human_decision" }

\* A node's partial update written over the channels: a key of the update
\* that is no channel is left out, the other keys replace the stored values.
Merge(state, update) ==
    [ k \in DOMAIN state \cup (DOMAIN update \cap ProjectStateKeys) |->
        IF k \in DOMAIN update THEN update[k] ELSE state[k] ]

VARIABLES
    store,           \* session -> the latest checkpoint
    active_threads,  \* session -> registered thread id, 0 when absent
    thread_errors,   \* session -> recorded error text, "none" when absent
    threads,         \* thread id -> thread object
    nextTid,         \* number of thread objects created so far
    resp,            \* the last response of a request handler: its status
    stream,          \* the status stream (one event_generator at a time)
    run,             \* session -> what its latest accepted call asked and did
    router,          \* a router applied on its own: its input and its answer
    process,         \* the server process: its phase and its store's condition
    db,              \* the checkpoints table read on its own, and the last reply
    mcp              \* the run_cbt_workflow call of the MCP server

vars == <<store, active_threads, thread_errors, threads, nextTid, resp, stream,
          run, router, process, db, mcp>>

\* What the actions of a session leave alone.
Aux == <<router, process, db, mcp>>

\* What the requests and the driver threads read and write.
ServerVars == <<store, active_threads, thread_errors, threads, nextTid, resp,
                stream, run>>

\* checkpointer.get(config): the latest checkpoint's channel values.
Latest(s) == store[s].latest

\* checkpointer.get(config) is None: the session has no checkpoint.
NoCheckpoint(s) == Latest(s) = NoState

\* checkpointer.put: the checkpoint becomes the session's latest.
Put(s, state) == [store EXCEPT ![s] = [latest |-> state]]

NoThread == [sid |-> "none", pc |-> "unborn", input |-> NoState,
             task |-> "none", steps |-> 0]
NoRun == [by |-> "none", prev |-> NoState, text |-> <<>>, parked |-> FALSE,
          first |-> "none", last |-> "none", drafts |-> 0, outcome |-> "none",
          final_output |-> NoState]

NoRouter == [state |-> NoState, node |-> "none", answer |-> "none",
             next |-> "none"]

\* The process after a successful import of the module, serving requests.
Serving == [phase |-> "serving", writable |-> TRUE, parked |-> {}]

NoDb == [rows |-> {}, reply |-> [op |-> "none", code |-> 0]]

\* No run_cbt_workflow call has been made.
NoMcp == [pc |-> "idle", sid |-> "none", task |-> "none", steps |-> 0,
          input |-> NoState, hil_detected |-> FALSE, final_values |-> NoState,
          result |-> NoState, reached_hil |-> FALSE, failed |-> FALSE,
          finalized |-> FALSE, approvals |-> 0]

Init ==
    /\ store = [s \in AllSessions |-> [latest |-> NoState]]
    /\ active_threads = [s \in AllSessions |-> 0]
    /\ thread_errors = [s \in AllSessions |-> "none"]
    /\ threads = [t \in Tids |-> NoThread]
    /\ nextTid = 0
    /\ resp = [sid |-> "none", code |-> 0]
    /\ stream = [open |-> FALSE, sid |-> "none"]
    /\ run = [s \in AllSessions |-> NoRun]
    /\ router = NoRouter
    /\ process = Serving
    /\ db = NoDb
    /\ mcp = NoMcp

\* threading.Thread.is_alive()
is_alive(t) == threads[t].pc \notin {"unborn", "dead"}

\* ---------------------------------------------------------------- routers
route_initial_entry_mut(state) == "Drafting"

route_initial_entry(state) ==
    IF state.human_decision = "Approve" THEN "Finalize" ELSE "Drafting"

route_safety_check_mut(state) ==
    IF state.safety_metric <= SAFETY_THRESHOLD THEN "Drafting" ELSE "Critic"

route_safety_check(state) ==
    IF state.safety_metric < SAFETY_THRESHOLD THEN "Drafting" ELSE "Critic"

route_critic_check_mut(state) ==
    IF state.iteration_count >= MAX_ITERATIONS THEN "Finalize"
    ELSE IF state.empathy_metric < EMPATHY_THRESHOLD THEN "Drafting"
    ELSE "HIL_Node"

route_critic_check(state) ==
    IF state.empathy_metric < EMPATHY_THRESHOLD THEN "Drafting"
    ELSE IF state.iteration_count = 1 THEN "HIL_Node"
    ELSE IF state.iteration_count >= MAX_ITERATIONS THEN "Finalize"
    ELSE "HIL_Node"

route_human_decision(state) ==
    IF state.human_decision = "Approve" THEN "Finalize"
    ELSE IF state.human_decision = "Reject" THEN "Drafting"
    ELSE "HIL_Node"

\* The path maps given to add_conditional_edges / set_conditional_entry_point.
EntryEnds == {"Drafting", "Finalize"}
SafetyEnds == {"Drafting", "Critic"}
CriticEnds == {"Drafting", "HIL_Node", "Finalize"}
HilEnds == {"Drafting", "Finalize"}

\* The nodes a conditional edge may lead to.
Stages == {"Drafting", "Safety", "Critic", "HIL_Node", "Finalize"}

\* A conditional edge looks the router's answer up in its path map; an answer
\* the map does not hold raises KeyError inside the step.
Destination(ends, answer) == IF answer \in ends THEN answer ELSE "KeyError"

\* ------------------------------------------------------------------ nodes
drafting_agent_node_mut(state, new_draft) ==
    [ current_draft |-> new_draft,
      draft_history |-> Append(state.draft_history, new_draft),
      iteration_count |-> state.iteration_count + 1,
      active_node |-> "Drafting",
      human_decision |-> "REVIEW_REQUIRED" ]

drafting_agent_node_mut_count(state, new_draft) ==
    [ current_draft |-> new_draft,
      draft_history |-> IF state.current_draft # ""
                        THEN Append(state.draft_history, state.current_draft)
                        ELSE state.draft_history,
      iteration_count |-> IF state.current_draft # ""
                          THEN state.iteration_count + 1
                          ELSE state.iteration_count,
      active_node |-> "Drafting",
      human_decision |-> "REVIEW_REQUIRED" ]

drafting_agent_node_mut_keep(state, new_draft) ==
    [ current_draft |-> new_draft,
      draft_history |-> IF state.current_draft # ""
                        THEN Append(state.draft_history, state.current_draft)
                        ELSE state.draft_history,
      iteration_count |-> state.iteration_count + 1,
      active_node |-> "Drafting",
      human_decision |-> state.human_decision ]

drafting_agent_node(state, new_draft) ==
    [ current_draft |-> new_draft,
      draft_history |-> IF state.current_draft # ""
                        THEN Append(state.draft_history, state.current_draft)
                        ELSE state.draft_history,
      iteration_count |-> state.iteration_count + 1,
      active_node |-> "Drafting",
      human_decision |-> "REVIEW_REQUIRED" ]

\* The branch drafting_agent_node takes to build its prompt:
\* is_human_revision first, then iteration_count > 0, else the initial draft.
DraftingTask(state) ==
    IF StartsWithRevisionTag(state.user_intent) THEN "human_override"
    ELSE IF state.iteration_count > 0 THEN "internal_feedback"
    ELSE "initial"

Min(a, b) == IF a < b THEN a ELSE b

\* The rule-based check finds a prohibited phrase; the node then reads
\* safety_output.feedback, a field SafetyReport does not declare.
SafetyViolations(state) == ContainsProhibited(state.current_draft)

safety_agent_node(state, llm_score) ==
    [ safety_metric |-> IF SafetyViolations(state)
                        THEN Min(llm_score, PENALTY_SCORE) ELSE llm_score,
      active_node |-> "Safety" ]

critic_agent_node(state) ==
    [ empathy_metric |-> Vader(state.current_draft),
      active_node |-> "Critic" ]

hil_node(state) == [ next_node |-> "HIL_Node", active_node |-> "HIL_Node" ]

FinalOutput_mut(state) ==
    [ final_status |-> "APPROVED",
      final_draft |-> IF state.draft_history # <<>>
                      THEN state.draft_history[Len(state.draft_history)]
                      ELSE "",
      total_iterations |-> state.iteration_count,
      safety_score |-> state.safety_metric,
      empathy_score |-> state.empathy_metric ]

FinalOutput(state) ==
    [ final_status |-> "APPROVED",
      final_draft |-> state.current_draft,
      total_iterations |-> state.iteration_count,
      safety_score |-> state.safety_metric,
      empathy_score |-> state.empathy_metric ]

finalize_node(state) ==
    [ current_draft |-> state.current_draft,
      final_output |-> FinalOutput(state),
      active_node |-> "Finalize" ]

\* --------------------------------------------------------- session runner
IsRunning_mut(s) == active_threads[s] # 0 /\ ~is_alive(active_threads[s])

\* existing_thread and existing_thread.is_alive()
IsRunning(s) == active_threads[s] # 0 /\ is_alive(active_threads[s])

\* execute_graph_in_background: reject, or create, register and start a thread.
execute_graph_in_background(s, state_to_invoke, op, by, text) ==
    IF IsRunning(s)
    THEN /\ resp' = [sid |-> s, code |-> 400]
         /\ UNCHANGED <<Aux, store, active_threads, thread_errors, threads, nextTid,
                        stream, run>>
    ELSE /\ nextTid < MaxThreads
         /\ nextTid' = nextTid + 1
         /\ threads' = [threads EXCEPT ![nextTid + 1] =
                           [sid |-> s, pc |-> "start",
                            input |-> state_to_invoke, task |-> "__start__",
                            steps |-> 0]]
         /\ active_threads' = [active_threads EXCEPT ![s] = nextTid + 1]
         /\ resp' = [sid |-> s, code |-> 200]
         /\ run' = [run EXCEPT ![s] =
                       [by |-> by,
                        prev |-> IF op = "resume" THEN Latest(s) ELSE NoState,
                        text |-> text,
                        parked |-> op = "resume" /\ run[s].outcome = "hil",
                        first |-> "none", last |-> "none", drafts |-> 0,
                        outcome |-> "running", final_output |-> NoState]]
         /\ UNCHANGED <<Aux, store, thread_errors, stream>>

\* POST /start_session
start_session(s, user_prompt) ==
    execute_graph_in_background(s, create_initial_state(user_prompt, s),
                                "start", "start", <<>>)

\* The state a resume hands to the graph, from the latest checkpoint.
ResumeState(state, decision, suggested_content) ==
    IF decision = "Approve"
    THEN [state EXCEPT !.human_decision = "Approve",
                       !.user_intent = Strip(SplitHead(state.user_intent))]
    ELSE [state EXCEPT !.user_intent = RevisionIntent(suggested_content),
                       !.human_decision = "Reject",
                       !.active_node = "Drafting"]

\* The status a resume is turned away with before anything is invoked, 200
\* when it is not: 422 from the request model (human_decision: HumanDecision),
\* 404 without a checkpoint, 500 from get_state_from_checkpoint.
ResumeCheck(state, decision) ==
    IF decision \notin Decisions THEN 422
    ELSE IF state = NoState THEN 404
    ELSE IF Malformed(state) THEN 500
    ELSE 200

resume_session_mut(s, decision, suggested_content) ==
    IF NoCheckpoint(s) \/ Malformed(Latest(s))
    THEN /\ resp' = [sid |-> s, code |-> IF NoCheckpoint(s) THEN 404 ELSE 500]
         /\ UNCHANGED <<Aux, store, active_threads, thread_errors, threads, nextTid,
                        stream, run>>
    ELSE execute_graph_in_background(
             s, ResumeState(Latest(s), decision, suggested_content),
             "resume", decision, suggested_content)

\* POST /resume_session
resume_session(s, decision, suggested_content) ==
    IF ResumeCheck(Latest(s), decision) # 200
    THEN /\ resp' = [sid |-> s, code |-> ResumeCheck(Latest(s), decision)]
         /\ UNCHANGED <<Aux, store, active_threads, thread_errors, threads, nextTid,
                        stream, run>>
    ELSE execute_graph_in_background(
             s, ResumeState(Latest(s), decision, suggested_content),
             "resume", decision, suggested_content)

\* ----------------------------------------------------------- driver thread
\* run_graph_in_background, first statement: thread_errors.pop(thread_id, None)
ThreadBegin(t) ==
    /\ threads[t].pc = "start"
    /\ thread_errors' = [thread_errors EXCEPT ![threads[t].sid] = "none"]
    /\ threads' = [threads EXCEPT ![t].pc = "invoke"]
    /\ UNCHANGED <<Aux, store, active_threads, nextTid, resp, stream, run>>

\* The record of the session's latest run after it entered a node: the first
\* and the last node entered, and the number of Drafting steps completed.
Ran(r, node, completed) ==
    [r EXCEPT !.first = IF @ = "none" THEN node ELSE @,
              !.last = node,
              !.drafts = IF node = "Drafting" /\ completed THEN @ + 1 ELSE @]

\* The thread is inside invoke, about to run `node`, with steps left.
Running(t, node) ==
    /\ threads[t].pc = "invoke"
    /\ threads[t].task = node
    /\ threads[t].steps < RecursionLimit

\* A completed step: the update is committed as a new checkpoint and the
\* thread moves to the next node.
Commit(t, node, update, next) ==
    LET s == threads[t].sid IN
    /\ store' = Put(s, Merge(Latest(s), update))
    /\ threads' = [threads EXCEPT ![t].task = next, ![t].steps = @ + 1]
    /\ run' = [run EXCEPT ![s] = Ran(@, node, TRUE)]
    /\ UNCHANGED <<Aux, active_threads, thread_errors, nextTid, resp, stream>>

Raise_mut(t, node, error, outcome) ==
    LET s == threads[t].sid IN
    /\ thread_errors' = [x \in AllSessions |-> error]
    /\ threads' = [threads EXCEPT ![t].pc = "finally", ![t].task = "none",
                                  ![t].steps = 0]
    /\ run' = [run EXCEPT ![s] = [Ran(@, node, FALSE) EXCEPT !.outcome = outcome]]
    /\ UNCHANGED <<Aux, store, active_threads, nextTid, resp, stream>>

\* A step that raises: nothing is committed; run_graph_in_background's except
\* clause records str(e).
Raise(t, node, error, outcome) ==
    LET s == threads[t].sid IN
    /\ thread_errors' = [thread_errors EXCEPT ![s] = error]
    /\ threads' = [threads EXCEPT ![t].pc = "finally", ![t].task = "none",
                                  ![t].steps = 0]
    /\ run' = [run EXCEPT ![s] = [Ran(@, node, FALSE) EXCEPT !.outcome = outcome]]
    /\ UNCHANGED <<Aux, store, active_threads, nextTid, resp, stream>>

\* invoke(input): the input is written over the stored channels and the
\* conditional entry point picks the first node.
GraphInput(t) ==
    LET s == threads[t].sid
        state == threads[t].input
    IN
    /\ Running(t, "__start__")
    /\ store' = Put(s, state)
    /\ threads' = [threads EXCEPT
                      ![t].task = Destination(EntryEnds, route_initial_entry(state)),
                      ![t].input = NoState]
    /\ UNCHANGED <<Aux, active_threads, thread_errors, nextTid, resp, stream, run>>

RunDrafting(t) ==
    LET state == Latest(threads[t].sid) IN
    /\ Running(t, "Drafting")
    /\ \E new_draft \in Drafts :
          Commit(t, "Drafting", drafting_agent_node(state, new_draft), "Safety")

RunSafety(t) ==
    LET state == Latest(threads[t].sid) IN
    /\ Running(t, "Safety")
    /\ \E llm_score \in SafetyScores :
          IF SafetyViolations(state)
          THEN Raise(t, "Safety", "AttributeError", "failed")
          ELSE LET update == safety_agent_node(state, llm_score) IN
               Commit(t, "Safety", update,
                      Destination(SafetyEnds,
                                  route_safety_check(Merge(state, update))))

RunCritic(t) ==
    LET state == Latest(threads[t].sid)
        update == critic_agent_node(state)
    IN
    /\ Running(t, "Critic")
    /\ Commit(t, "Critic", update,
              Destination(CriticEnds, route_critic_check(Merge(state, update))))

RunHIL(t) ==
    LET state == Latest(threads[t].sid)
        update == hil_node(state)
        next == Destination(HilEnds, route_human_decision(Merge(state, update)))
    IN
    /\ Running(t, "HIL_Node")
    /\ IF next = "KeyError"
       THEN Raise(t, "HIL_Node", "'HIL_Node'", "hil")
       ELSE Commit(t, "HIL_Node", update, next)

RunFinalize(t) ==
    LET s == threads[t].sid
        state == Latest(s)
    IN
    /\ Running(t, "Finalize")
    /\ store' = Put(s, Merge(state, finalize_node(state)))
    /\ threads' = [threads EXCEPT ![t].pc = "finally", ![t].task = "none",
                                  ![t].steps = 0]
    /\ run' = [run EXCEPT ![s] = [Ran(@, "Finalize", TRUE) EXCEPT
                                     !.outcome = "end",
                                     !.final_output =
                                         finalize_node(state).final_output]]
    /\ UNCHANGED <<Aux, active_threads, thread_errors, nextTid, resp, stream>>

\* The LLM call of a node raises (network, quota, schema).
StageRaises(t) ==
    /\ \E node \in {"Drafting", "Safety", "Critic"} : Running(t, node)
    /\ Raise(t, threads[t].task, "LLMError", "failed")

OutOfSteps_mut(t) ==
    LET s == threads[t].sid IN
    /\ threads[t].pc = "invoke"
    /\ threads[t].steps > RecursionLimit
    /\ thread_errors' = [thread_errors EXCEPT ![s] = "GraphRecursionError"]
    /\ threads' = [threads EXCEPT ![t].pc = "finally", ![t].task = "none",
                                  ![t].steps = 0]
    /\ run' = [run EXCEPT ![s].outcome = "out_of_steps"]
    /\ UNCHANGED <<Aux, store, active_threads, nextTid, resp, stream>>

\* The invoke has used its steps and the graph has not reached END:
\* GraphRecursionError, recorded by run_graph_in_background's except clause.
\* The checkpoints of the completed steps stay.
OutOfSteps(t) ==
    LET s == threads[t].sid IN
    /\ threads[t].pc = "invoke"
    /\ threads[t].steps = RecursionLimit
    /\ thread_errors' = [thread_errors EXCEPT ![s] = "GraphRecursionError"]
    /\ threads' = [threads EXCEPT ![t].pc = "finally", ![t].task = "none",
                                  ![t].steps = 0]
    /\ run' = [run EXCEPT ![s].outcome = "out_of_steps"]
    /\ UNCHANGED <<Aux, store, active_threads, nextTid, resp, stream>>

ThreadFinally_mut(t) ==
    /\ threads[t].pc = "finally"
    /\ threads' = [threads EXCEPT ![t].pc = "dead"]
    /\ UNCHANGED <<Aux, store, active_threads, thread_errors, nextTid, resp, stream,
                   run>>

\* run_graph_in_background, finally: active_threads.pop(thread_id, None), and
\* the thread function returns.  After the pop nothing in the program holds
\* the thread object, so the rest of its life is not a separate step.
ThreadFinally(t) ==
    /\ threads[t].pc = "finally"
    /\ active_threads' = [active_threads EXCEPT ![threads[t].sid] = 0]
    /\ threads' = [threads EXCEPT ![t].pc = "dead"]
    /\ UNCHANGED <<Aux, store, thread_errors, nextTid, resp, stream, run>>

\* ---------------------------------------------------------- status stream
_derive_status_view(s, state, thread_alive) ==
    LET has == state # NoState
        human_action == IF has THEN state.human_decision ELSE "None"
        complete == (has /\ state.active_node = "END") \/ human_action = "Approve"
    IN
    [ is_complete |-> complete,
      status |-> IF complete THEN "complete"
                 ELSE IF thread_alive
                      THEN (IF human_action = "Reject" THEN "revising" ELSE "running")
                      ELSE "halted",
      current_draft |-> IF has THEN state.current_draft ELSE "None",
      final_cbt_plan |-> IF complete THEN state.current_draft ELSE "None",
      safety_metric |-> IF has THEN state.safety_metric ELSE -1,
      empathy_metric |-> IF has THEN state.empathy_metric ELSE -1,
      active_node |-> IF has THEN state.active_node ELSE "None",
      error |-> thread_errors[s] ]

\* event_generator's payload for session s: a checkpoint that
\* get_state_from_checkpoint turns down is read as no state (`state or {}`).
StatusPayload(s, checkpoint) ==
    LET state == IF checkpoint # NoState /\ Malformed(checkpoint)
                 THEN NoState
                 ELSE checkpoint
        thread_alive == active_threads[s] # 0 /\ is_alive(active_threads[s])
    IN _derive_status_view(s, state, thread_alive)

\* One iteration of event_generator's loop for session s: the payload is
\* derived from the latest checkpoint and the thread table, and the generator
\* ends when the status is terminal and no driver is alive.
StreamDone(s) ==
    LET thread_alive == active_threads[s] # 0 /\ is_alive(active_threads[s])
        payload == StatusPayload(s, Latest(s))
    IN payload.status \in {"complete", "halted"} /\ ~thread_alive

\* GET /stream_session_info: the generator is created and runs its first
\* iteration (creating it touches nothing shared).
StreamOpen(s) ==
    /\ ~stream.open
    /\ stream' = IF StreamDone(s) THEN stream ELSE [open |-> TRUE, sid |-> s]
    /\ UNCHANGED <<Aux, store, active_threads, thread_errors, threads, nextTid, resp,
                   run>>

StreamPoll_mut ==
    LET s == stream.sid IN
    /\ stream.open
    /\ stream' = IF StreamDone(s) THEN [open |-> FALSE, sid |-> "none"]
                 ELSE stream
    /\ thread_errors' = IF StreamDone(s)
                        THEN [thread_errors EXCEPT ![s] = "none"]
                        ELSE thread_errors
    /\ UNCHANGED <<Aux, store, active_threads, threads, nextTid, resp, run>>

\* A later iteration of the loop.
StreamPoll ==
    LET s == stream.sid IN
    /\ stream.open
    /\ stream' = IF StreamDone(s) THEN [open |-> FALSE, sid |-> "none"]
                 ELSE stream
    /\ UNCHANGED <<Aux, store, active_threads, thread_errors, threads, nextTid, resp,
                   run>>

Next ==
    \/ \E s \in Sessions, p \in Prompts : start_session(s, p)
    \/ \E s \in Sessions, d \in Decisions, c \in SuggestedContents :
          resume_session(s, d, c)
    \/ \E t \in Tids : ThreadBegin(t)
    \/ \E t \in Tids : GraphInput(t)
    \/ \E t \in Tids : RunDrafting(t)
    \/ \E t \in Tids : RunSafety(t)
    \/ \E t \in Tids : RunCritic(t)
    \/ \E t \in Tids : RunHIL(t)
    \/ \E t \in Tids : RunFinalize(t)
    \/ \E t \in Tids : StageRaises(t)
    \/ \E t \in Tids : OutOfSteps(t)
    \/ \E t \in Tids : ThreadFinally(t)
    \/ \E s \in Sessions : StreamOpen(s)
    \/ StreamPoll

Spec == Init /\ [][Next]_vars

\* The driver threads are daemon threads the interpreter keeps scheduling: a
\* thread that can take a step eventually takes one.  A raising LLM call is
\* possible, never forced.
ThreadStep(t) ==
    \/ ThreadBegin(t) \/ GraphInput(t) \/ RunDrafting(t) \/ RunSafety(t)
    \/ RunCritic(t) \/ RunHIL(t) \/ RunFinalize(t) \/ OutOfSteps(t)
    \/ ThreadFinally(t)

LiveSpec == Spec /\ \A t \in Tids : WF_vars(ThreadStep(t))

\* ------------------------------------------------------ the server process
ProcessInit ==
    /\ store = [s \in AllSessions |-> [latest |-> NoState]]
    /\ active_threads = [s \in AllSessions |-> 0]
    /\ thread_errors = [s \in AllSessions |-> "none"]
    /\ threads = [t \in Tids |-> NoThread]
    /\ nextTid = 0
    /\ resp = [sid |-> "none", code |-> 0]
    /\ stream = [open |-> FALSE, sid |-> "none"]
    /\ run = [s \in AllSessions |-> NoRun]
    /\ router = NoRouter
    /\ db = NoDb
    /\ mcp = NoMcp
    /\ \E writable \in BOOLEAN :
          process = [phase |-> "importing", writable |-> writable,
                     parked |-> {}]

ImportGraph_mut ==
    /\ process.phase = "importing"
    /\ process' = [process EXCEPT !.phase = "serving"]
    /\ UNCHANGED <<ServerVars, router, db, mcp>>

\* from graph.supervisor import cbt_review_graph: the module compiles the
\* graph when it is imported, and get_checkpointer raises RuntimeError when
\* the store file cannot be created or written; the import then fails and
\* uvicorn.run is never reached.
ImportGraph ==
    /\ process.phase = "importing"
    /\ process' = [process EXCEPT
                      !.phase = IF process.writable THEN "serving" ELSE "failed"]
    /\ UNCHANGED <<ServerVars, router, db, mcp>>

Restart_mut ==
    /\ process.phase = "serving"
    /\ \A t \in Tids : ~is_alive(t)
    /\ store' = [s \in AllSessions |-> [latest |-> NoState]]
    /\ active_threads' = [s \in AllSessions |-> 0]
    /\ thread_errors' = [s \in AllSessions |-> "none"]
    /\ stream' = [open |-> FALSE, sid |-> "none"]
    /\ \E writable \in BOOLEAN :
          process' = [phase |-> "importing", writable |-> writable,
                      parked |-> { s \in Sessions : run[s].outcome = "hil" }]
    /\ UNCHANGED <<threads, nextTid, resp, run, router, db, mcp>>

\* The process ends while no driver is at work and a new one comes up: the
\* module state (active_threads, thread_errors) starts empty, an open status
\* stream is gone, the store file stays.  process.parked keeps the sessions
\* whose latest run had stopped at the human-review node.
Restart ==
    /\ process.phase = "serving"
    /\ \A t \in Tids : ~is_alive(t)
    /\ active_threads' = [s \in AllSessions |-> 0]
    /\ thread_errors' = [s \in AllSessions |-> "none"]
    /\ stream' = [open |-> FALSE, sid |-> "none"]
    /\ \E writable \in BOOLEAN :
          process' = [phase |-> "importing", writable |-> writable,
                      parked |-> { s \in Sessions : run[s].outcome = "hil" }]
    /\ UNCHANGED <<store, threads, nextTid, resp, run, router, db, mcp>>

\* The requests that start a driver, and the steps of the drivers.
Drive ==
    \/ \E s \in Sessions, p \in Prompts : start_session(s, p)
    \/ \E s \in Sessions, d \in Decisions, c \in SuggestedContents :
          resume_session(s, d, c)
    \/ \E t \in Tids : ThreadStep(t)
    \/ \E t \in Tids : StageRaises(t)

ProcessNext ==
    \/ ImportGraph
    \/ Restart
    \/ process.phase = "serving" /\ Drive

ProcessSpec == ProcessInit /\ [][ProcessNext]_vars

ProcessLiveSpec ==
    ProcessSpec
    /\ \A t \in Tids : WF_vars(process.phase = "serving" /\ ThreadStep(t))

\* ------------------------------------------------- requests turned away
\* What the store file holds for a session when the server comes up: nothing,
\* or a checkpoint left by the command-line entry point.
StoredAtStartup == {NoState} \cup { cli_initial_state(p) : p \in Prompts }

RequestInit ==
    /\ \E found \in StoredAtStartup :
          store = [s \in AllSessions |->
                     [latest |-> IF s \in Sessions THEN found ELSE NoState]]
    /\ active_threads = [s \in AllSessions |-> 0]
    /\ thread_errors = [s \in AllSessions |-> "none"]
    /\ threads = [t \in Tids |-> NoThread]
    /\ nextTid = 0
    /\ resp = [sid |-> "none", code |-> 0]
    /\ stream = [open |-> FALSE, sid |-> "none"]
    /\ run = [s \in AllSessions |-> NoRun]
    /\ router = NoRouter
    /\ process = Serving
    /\ db = NoDb
    /\ mcp = NoMcp

\* A resume whose human_decision the request model does not admit.
InvalidResume ==
    \E s \in Sessions, d \in InvalidDecisions, c \in SuggestedContents :
       resume_session(s, d, c)

RequestNext == Next \/ InvalidResume

RequestSpec == RequestInit /\ [][RequestNext]_vars

\* ----------------------------------------------------- checkpoints table
\* The rows the table has room for.
MaxRows == 3

\* Python values as the checkpoint blob holds them: a tag and a payload.
Str(x) == [t |-> "str", v |-> x]
Bytes(x) == [t |-> "bytes", v |-> x]
List(q) == [t |-> "list", v |-> q]
Dict(f) == [t |-> "dict", v |-> f]

\* base64.b64encode(obj).decode("ascii") on the byte strings in use.
b64encode(x) ==
    CASE x = "" -> ""
      [] x = "ok" -> "b2s="
      [] x = "no" -> "bm8="

\* utils.make_json_safe: bytes become a tagged mapping with their base64
\* text, mappings and lists are converted item by item, strings are kept.
RECURSIVE make_json_safe(_)
make_json_safe(obj) ==
    CASE obj.t = "bytes" ->
            Dict(("__type__" :> Str("bytes"))
                 @@ ("base64" :> Str(b64encode(obj.v))))
      [] obj.t = "dict" ->
            Dict([k \in DOMAIN obj.v |-> make_json_safe(obj.v[k])])
      [] obj.t = "list" ->
            List([i \in DOMAIN obj.v |-> make_json_safe(obj.v[i])])
      [] obj.t = "str" -> obj

\* States a checkpoint may hold: without and with blackboard notes and
\* intent signals, and with bytes in the safety report.
StoredStates ==
    { Dict(("current_draft" :> Str("calm"))
           @@ ("blackboard_notes" :> List(<<>>))
           @@ ("intent_signals" :> List(<<>>))),
      Dict(("current_draft" :> Str("calm"))
           @@ ("blackboard_notes" :>
                  List(<<Dict(("severity" :> Str("warning"))
                              @@ ("message" :> Str("tone")))>>))
           @@ ("intent_signals" :>
                  List(<<Dict(("intent" :> Str("revise_for_empathy"))
                              @@ ("reason" :> Str("tone")))>>))),
      Dict(("current_draft" :> Str("calm"))
           @@ ("blackboard_notes" :>
                  List(<<Dict(("severity" :> Str("info"))
                              @@ ("message" :> Str("ok")))>>))
           @@ ("intent_signals" :> List(<<>>))
           @@ ("safety_report" :> Dict("feedback" :> Bytes("ok")))) }

\* The rows of a session, and the greatest checkpoint_id in a set of rows.
RowsOf(rows, thread_id) == { r \in rows : r.thread_id = thread_id }
MaxId(rows) ==
    IF rows = {} THEN 0
    ELSE CHOOSE n \in { r.checkpoint_id : r \in rows } :
            \A r \in rows : r.checkpoint_id <= n

\* ORDER BY checkpoint_id ASC
RECURSIVE OrderByIdAsc(_)
OrderByIdAsc(rows) ==
    IF rows = {} THEN <<>>
    ELSE LET last == CHOOSE r \in rows : r.checkpoint_id = MaxId(rows)
         IN Append(OrderByIdAsc(rows \ {last}), last)

\* What an endpoint returns for a row.
Entry(r) == [checkpoint_id |-> r.checkpoint_id,
             checkpoint |-> make_json_safe(r.checkpoint)]

StoreInit ==
    /\ store = [s \in AllSessions |-> [latest |-> NoState]]
    /\ active_threads = [s \in AllSessions |-> 0]
    /\ thread_errors = [s \in AllSessions |-> "none"]
    /\ threads = [t \in Tids |-> NoThread]
    /\ nextTid = 0
    /\ resp = [sid |-> "none", code |-> 0]
    /\ stream = [open |-> FALSE, sid |-> "none"]
    /\ run = [s \in AllSessions |-> NoRun]
    /\ router = NoRouter
    /\ process = Serving
    /\ db = NoDb
    /\ mcp = NoMcp

\* SqliteSaver.put for a step of the session's graph: a new row under a
\* checkpoint_id later than every id given before (the ids are time-ordered).
SaverPut(thread_id, state) ==
    /\ Cardinality(db.rows) < MaxRows
    /\ db' = [db EXCEPT !.rows = @ \cup
                  { [thread_id |-> thread_id,
                     checkpoint_id |-> MaxId(db.rows) + 1,
                     checkpoint |-> state] }]
    /\ UNCHANGED <<ServerVars, router, process, mcp>>

\* cbt_review_graph.checkpointer.get(config), as a resume calls it: the row
\* of the session with the greatest checkpoint_id, None without rows.
SaverGet(thread_id) ==
    LET rows == RowsOf(db.rows, thread_id) IN
    /\ db' = [db EXCEPT !.reply =
                  IF rows = {}
                  THEN [op |-> "latest", thread_id |-> thread_id, code |-> 404]
                  ELSE [op |-> "latest", thread_id |-> thread_id, code |-> 200,
                        checkpoint_id |-> MaxId(rows)]]
    /\ UNCHANGED <<ServerVars, router, process, mcp>>

\* GET /checkpoints/{checkpoint_id}; its 404 is raised inside the try block
\* and leaves as a 500.
get_checkpoint(checkpoint_id) ==
    LET rows == { r \in db.rows : r.checkpoint_id = checkpoint_id } IN
    /\ db' = [db EXCEPT !.reply =
                  IF rows = {}
                  THEN [op |-> "get", checkpoint_id |-> checkpoint_id,
                        code |-> 500]
                  ELSE [op |-> "get", checkpoint_id |-> checkpoint_id,
                        code |-> 200,
                        checkpoint |-> Entry(CHOOSE r \in rows : TRUE).checkpoint]]
    /\ UNCHANGED <<ServerVars, router, process, mcp>>

get_all_checkpoints_for_thread_mut(thread_id) ==
    LET rows == OrderByIdAsc(db.rows) IN
    /\ db' = [db EXCEPT !.reply =
                  IF rows = <<>>
                  THEN [op |-> "list", thread_id |-> thread_id, code |-> 404]
                  ELSE [op |-> "list", thread_id |-> thread_id, code |-> 200,
                        checkpoints |-> [i \in DOMAIN rows |-> Entry(rows[i])]]]
    /\ UNCHANGED <<ServerVars, router, process, mcp>>

\* GET /threads/{thread_id}/checkpoints
get_all_checkpoints_for_thread(thread_id) ==
    LET rows == OrderByIdAsc(RowsOf(db.rows, thread_id)) IN
    /\ db' = [db EXCEPT !.reply =
                  IF rows = <<>>
                  THEN [op |-> "list", thread_id |-> thread_id, code |-> 404]
                  ELSE [op |-> "list", thread_id |-> thread_id, code |-> 200,
                        checkpoints |-> [i \in DOMAIN rows |-> Entry(rows[i])]]]
    /\ UNCHANGED <<ServerVars, router, process, mcp>>

StoreNext ==
    \/ \E s \in AllSessions, state \in StoredStates : SaverPut(s, state)
    \/ \E s \in AllSessions : SaverGet(s)
    \/ \E id \in 1..MaxRows : get_checkpoint(id)
    \/ \E s \in AllSessions : get_all_checkpoints_for_thread(s)

StoreSpec == StoreInit /\ [][StoreNext]_vars

\* ------------------------------------------------------------ two sessions
\* Sessions started side by side and the steps of their drivers, up to the
\* human-review node.
IsolationNext ==
    \/ \E s \in AllSessions, p \in Prompts : start_session(s, p)
    \/ \E t \in Tids : ThreadBegin(t)
    \/ \E t \in Tids : GraphInput(t)
    \/ \E t \in Tids : RunDrafting(t)
    \/ \E t \in Tids : RunSafety(t)
    \/ \E t \in Tids : RunCritic(t)
    \/ \E t \in Tids : RunHIL(t)
    \/ \E t \in Tids : StageRaises(t)
    \/ \E t \in Tids : OutOfSteps(t)
    \/ \E t \in Tids : ThreadFinally(t)

IsolationSpec == Init /\ [][IsolationNext]_vars

\* ------------------------------------------------- the routers on their own
\* Each router is a function of the ProjectState it is given.  RouterSpec
\* draws a well-formed ProjectState and applies one router, with the path map
\* of its conditional edge, to it.
RouterDecisions == {"Approve", "Reject", "REVIEW_REQUIRED", "None"}
RouterSafety == {0, SAFETY_THRESHOLD - 1, SAFETY_THRESHOLD, 100}
RouterEmpathy == {EMPATHY_THRESHOLD - 1, EMPATHY_THRESHOLD, 95}
RouterIterations ==
    {0, 1, 2, MAX_ITERATIONS - 1, MAX_ITERATIONS, MAX_ITERATIONS + 1}

\* BlackboardNote, as far as a router could read it.
Note(severity, resolved) == [severity |-> severity, resolved |-> resolved]
RouterNotes ==
    { <<>>, <<Note("blocker", FALSE)>>, <<Note("blocker", TRUE)>>,
      <<Note("warning", FALSE)>>, <<Note("info", TRUE), Note("blocker", FALSE)>> }

RouterStates ==
    { [blackboard_notes |-> notes] @@
      [create_initial_state(p, "s1") EXCEPT !.human_decision = hd,
                                      !.safety_metric = sm,
                                      !.empathy_metric = em,
                                      !.iteration_count = ic] :
        notes \in RouterNotes, p \in Prompts, hd \in RouterDecisions,
        sm \in RouterSafety, em \in RouterEmpathy, ic \in RouterIterations }

SessionVars == <<store, active_threads, thread_errors, threads, nextTid, resp,
                 stream, run, process, db, mcp>>

RouterInit ==
    /\ store = [s \in AllSessions |-> [latest |-> NoState]]
    /\ active_threads = [s \in AllSessions |-> 0]
    /\ thread_errors = [s \in AllSessions |-> "none"]
    /\ threads = [t \in Tids |-> NoThread]
    /\ nextTid = 0
    /\ resp = [sid |-> "none", code |-> 0]
    /\ stream = [open |-> FALSE, sid |-> "none"]
    /\ run = [s \in AllSessions |-> NoRun]
    /\ process = Serving
    /\ db = NoDb
    /\ mcp = NoMcp
    /\ \E state \in RouterStates :
          router = [NoRouter EXCEPT !.state = state]

\* The conditional edge after `node`: the router's answer and the node the
\* path map gives for it.
Routed(node, ends, answer) ==
    /\ router.node = "none"
    /\ router' = [router EXCEPT !.node = node, !.answer = answer,
                                !.next = Destination(ends, answer)]
    /\ UNCHANGED SessionVars

RouteEntry == Routed("__start__", EntryEnds, route_initial_entry(router.state))
RouteSafety == Routed("Safety", SafetyEnds, route_safety_check(router.state))
RouteCritic == Routed("Critic", CriticEnds, route_critic_check(router.state))
RouteHuman == Routed("HIL_Node", HilEnds, route_human_decision(router.state))

RouterNext == RouteEntry \/ RouteSafety \/ RouteCritic \/ RouteHuman

RouterSpec == RouterInit /\ [][RouterNext]_vars

\* ------------------------------------------------------- the MCP tool
\* run_cbt_workflow (mcp_server.py) runs the same compiled graph over the same
\* store file, in the calling thread, with stream(stream_mode="updates").
\* RecursionLimit stands for its recursion_limit as well.
mcp_initial_state(user_intent, thread_id) ==
    [ user_intent |-> user_intent,
      thread_id |-> thread_id,
      current_draft |-> "",
      draft_history |-> <<>>,
      iteration_count |-> 0,
      active_node |-> "Drafting",
      next_node |-> "None",
      safety_metric |-> 0,
      empathy_metric |-> 0,
      human_decision |-> "None" ]

\* final_values.get(key, default)
Get(values, key, default) ==
    IF key \in DOMAIN values THEN values[key] ELSE default

\* The dict run_cbt_workflow returns.
McpResult(thread_id, final_values) ==
    [ thread_id |-> thread_id,
      current_draft |-> Get(final_values, "current_draft", ""),
      final_output |-> Get(final_values, "final_output", "None"),
      safety_metric |-> Get(final_values, "safety_metric", 0),
      empathy_metric |-> Get(final_values, "empathy_metric", 0) ]

\* invoke(updated_state) with human_decision "Approve": the input is written
\* over the channels, the entry point routes to Finalize, Finalize completes
\* and the graph ends; invoke returns the channel values.
InvokeApproved(state, updated_state) ==
    LET input == Merge(state, updated_state)
    IN IF Destination(EntryEnds, route_initial_entry(input)) = "Finalize"
       THEN Merge(input, finalize_node(input))
       ELSE input

\* The tool is called.
McpCall(s, user_intent) ==
    /\ mcp.pc \in {"idle", "returned"}
    /\ mcp' = [NoMcp EXCEPT !.pc = "stream", !.sid = s, !.task = "__start__",
                            !.input = mcp_initial_state(user_intent, s)]
    /\ UNCHANGED <<ServerVars, router, process, db>>

\* stream(initial_state): the input is written over the stored channels and
\* the conditional entry point picks the first node.
McpGraphInput ==
    /\ mcp.pc = "stream"
    /\ mcp.task = "__start__"
    /\ store' = Put(mcp.sid, mcp.input)
    /\ mcp' = [mcp EXCEPT
                  !.task = Destination(EntryEnds, route_initial_entry(mcp.input)),
                  !.input = NoState]
    /\ UNCHANGED <<active_threads, thread_errors, threads, nextTid, resp, stream,
                   run, router, process, db>>

\* The update the node returns from `state`.
McpUpdate(node, state, new_draft, llm_score) ==
    CASE node = "Drafting" -> drafting_agent_node(state, new_draft)
      [] node = "Safety"   -> safety_agent_node(state, llm_score)
      [] node = "Critic"   -> critic_agent_node(state)
      [] node = "HIL_Node" -> hil_node(state)
      [] node = "Finalize" -> finalize_node(state)

\* The node the graph goes to after `node` left `state`.
McpAfter(node, state) ==
    CASE node = "Drafting" -> "Safety"
      [] node = "Safety"   -> Destination(SafetyEnds, route_safety_check(state))
      [] node = "Critic"   -> Destination(CriticEnds, route_critic_check(state))
      [] node = "HIL_Node" -> Destination(HilEnds, route_human_decision(state))
      [] node = "Finalize" -> "__end__"

\* The call leaves with final_values.
McpReturn(final_values, finalized, approvals) ==
    [mcp EXCEPT !.pc = "returned", !.task = "none", !.steps = 0,
                !.final_values = final_values,
                !.result = McpResult(mcp.sid, final_values),
                !.finalized = @ \/ finalized,
                !.approvals = @ + approvals]

\* One turn of `for event in cbt_review_graph.stream(...)`: the graph runs
\* its next node and the loop body looks at the update.  A step that raises
\* ends the stream with the exception, which the except clause around the
\* loop prints; a stream that reaches the end of the graph is exhausted with
\* final_values still None.  Both go on to the fallback.
McpEvent ==
    LET s == mcp.sid
        node == mcp.task
        state == Latest(s)
    IN
    /\ mcp.pc = "stream"
    /\ node \in Stages
    /\ mcp.steps < RecursionLimit
    /\ \E new_draft \in Drafts, llm_score \in SafetyScores, llm_raises \in BOOLEAN :
          LET update == McpUpdate(node, state, new_draft, llm_score)
              after == Merge(state, update)
              next == McpAfter(node, after)
              fails == \/ node \in {"Drafting", "Safety", "Critic"} /\ llm_raises
                       \/ node = "Safety" /\ SafetyViolations(state)
          IN
          IF fails \/ next = "KeyError"
          THEN /\ mcp' = [mcp EXCEPT !.pc = "fallback", !.task = "none",
                                     !.steps = 0,
                                     !.failed = @ \/ fails,
                                     !.reached_hil = @ \/ node = "HIL_Node"]
               /\ UNCHANGED store
          ELSE IF /\ node = "HIL_Node"
                  /\ Get(update, "human_decision", "None") = "None"
                  /\ ~mcp.hil_detected
          THEN LET updated_state == update @@ [human_decision |-> "Approve"]
                   final_values == InvokeApproved(after, updated_state)
               IN /\ store' = Put(s, final_values)
                  /\ mcp' = [McpReturn(final_values,
                                       final_values.active_node = "Finalize", 1)
                               EXCEPT !.hil_detected = TRUE,
                                      !.reached_hil = TRUE]
          ELSE /\ store' = Put(s, after)
               /\ mcp' = IF next = "__end__"
                         THEN [mcp EXCEPT !.pc = "fallback", !.task = "none",
                                          !.steps = 0, !.finalized = TRUE]
                         ELSE [mcp EXCEPT !.task = next, !.steps = @ + 1,
                                          !.reached_hil = @ \/ node = "HIL_Node"]
    /\ UNCHANGED <<active_threads, thread_errors, threads, nextTid, resp, stream,
                   run, router, process, db>>

\* The stream has used its steps: GraphRecursionError, printed by the except
\* clause around the loop.
McpOutOfSteps ==
    /\ mcp.pc = "stream"
    /\ mcp.steps = RecursionLimit
    /\ mcp' = [mcp EXCEPT !.pc = "fallback", !.task = "none", !.steps = 0]
    /\ UNCHANGED <<ServerVars, router, process, db>>

\* `if final_values is None`: the latest checkpoint is read (the stream wrote
\* its input first, so there is one); a state whose active_node is "HIL_Node"
\* with no decision is approved and invoked, any other state is returned as
\* it is.
McpFallback ==
    LET s == mcp.sid
        state == Latest(s)
    IN
    /\ mcp.pc = "fallback"
    /\ ~NoCheckpoint(s)
    /\ IF state.active_node = "HIL_Node" /\ state.human_decision = "None"
       THEN LET final_values ==
                   InvokeApproved(state, [human_decision |-> "Approve"])
            IN /\ store' = Put(s, final_values)
               /\ mcp' = McpReturn(final_values,
                                   final_values.active_node = "Finalize", 1)
       ELSE /\ mcp' = McpReturn(state, FALSE, 0)
            /\ UNCHANGED store
    /\ UNCHANGED <<active_threads, thread_errors, threads, nextTid, resp, stream,
                   run, router, process, db>>

McpNext ==
    \/ \E s \in AllSessions, p \in Prompts : McpCall(s, p)
    \/ McpGraphInput
    \/ McpEvent
    \/ McpOutOfSteps
    \/ McpFallback

McpSpec == Init /\ [][McpNext]_vars

\* ------------------------------------------- the status stream in full
\* event_generator with its last_payload.  The stream record here also holds
\* the payload last yielded, whether the latest turn of the loop yielded, and
\* the parity of the turns taken.
NoFeed == [open |-> FALSE, sid |-> "none", last_payload |-> NoState,
           yielded |-> FALSE, turn |-> 0]

Iteration_mut(s, last_payload, turn) ==
    LET payload == StatusPayload(s, Latest(s))
        sends == payload # last_payload
        breaks == payload.status \in {"complete", "halted"}
    IN [ open |-> ~breaks, sid |-> s,
         last_payload |-> IF sends THEN payload ELSE last_payload,
         yielded |-> sends, turn |-> 1 - turn ]

\* One turn of `while True`: the payload is derived, yielded when it differs
\* from the one yielded last, and the loop breaks when the status is terminal
\* and no registered thread is alive.
Iteration(s, last_payload, turn) ==
    LET payload == StatusPayload(s, Latest(s))
        thread_alive == active_threads[s] # 0 /\ is_alive(active_threads[s])
        sends == payload # last_payload
        breaks == payload.status \in {"complete", "halted"} /\ ~thread_alive
    IN [ open |-> ~breaks, sid |-> s,
         last_payload |-> IF sends THEN payload ELSE last_payload,
         yielded |-> sends, turn |-> 1 - turn ]

\* GET /stream_session_info: a new generator, last_payload None, first turn.
FeedOpen(s) ==
    /\ ~stream.open
    /\ stream' = Iteration(s, NoState, stream.turn)
    /\ UNCHANGED <<Aux, store, active_threads, thread_errors, threads, nextTid, resp,
                   run>>

\* A later turn, after asyncio.sleep(poll_interval).
FeedPoll ==
    /\ stream.open
    /\ stream' = Iteration(stream.sid, stream.last_payload, stream.turn)
    /\ UNCHANGED <<Aux, store, active_threads, thread_errors, threads, nextTid, resp,
                   run>>

FeedInit ==
    /\ store = [s \in AllSessions |-> [latest |-> NoState]]
    /\ active_threads = [s \in AllSessions |-> 0]
    /\ thread_errors = [s \in AllSessions |-> "none"]
    /\ threads = [t \in Tids |-> NoThread]
    /\ nextTid = 0
    /\ resp = [sid |-> "none", code |-> 0]
    /\ stream = NoFeed
    /\ run = [s \in AllSessions |-> NoRun]
    /\ router = NoRouter
    /\ process = Serving
    /\ db = NoDb
    /\ mcp = NoMcp

\* The decision a client of this stream sends: the one after which the view
\* reports "complete" while the driver is still alive.
FeedDecisions == {"Approve"}

FeedNext ==
    \/ \E s \in Sessions, p \in Prompts : start_session(s, p)
    \/ \E s \in Sessions, d \in FeedDecisions, c \in SuggestedContents :
          resume_session(s, d, c)
    \/ \E t \in Tids : ThreadStep(t)
    \/ \E s \in Sessions : FeedOpen(s)
    \/ FeedPoll

FeedSpec == FeedInit /\ [][FeedNext]_vars

\* The event loop keeps running the generator: a turn that is due is taken.
\* The one session has at most one thread that can step, so the fairness of
\* the driver threads is the fairness of "some thread steps".
FeedLiveSpec ==
    FeedSpec /\ WF_vars(FeedPoll) /\ WF_vars(\E t \in Tids : ThreadStep(t))

\* ------------------------------------------------------------- properties
\* A thread is registered for the session and has not finished.
DriverAlive(s) ==
    /\ active_threads[s] # 0
    /\ threads[active_threads[s]].pc \in {"start", "invoke", "finally"}

\* The threads that can still run a stage of the session.
Executing(s) ==
    {t \in Tids : threads[t].sid = s /\ threads[t].pc \in {"start", "invoke"}}

\* C1: a start_session for a session whose registered driver thread is alive
\* is answered 400 "already running", and it creates and registers no thread.
C1_StartWhileRunningRejected ==
    [][\A s \in Sessions, p \in Prompts :
          (DriverAlive(s) /\ start_session(s, p))
              => /\ resp' = [sid |-> s, code |-> 400]
                 /\ UNCHANGED <<Aux, threads, active_threads, nextTid>>]_vars

C1_Witness ==
    \E s \in Sessions :
        /\ DriverAlive(s)
        /\ resp = [sid |-> s, code |-> 400]

\* C2: at every moment at most one thread per session can run stages.
C2_OneDriverPerSession ==
    \A s \in Sessions : Cardinality(Executing(s)) <= 1

\* A second driver of the session runs a stage after the first one finished,
\* and a call made meanwhile was turned away.
C2_Witness ==
    \E s \in Sessions, t \in Tids :
        /\ t > 1
        /\ threads[t].sid = s
        /\ threads[t].pc = "invoke"
        /\ threads[t].task = "Safety"
        /\ threads[1].pc = "dead"
        /\ resp.code = 400

\* The fields of the checkpointed state.
Fields == DOMAIN create_initial_state(<<>>, "s1")

\* The session's latest accepted call was a resume of a session whose driver
\* had stopped at the human-review node.
ResumedParked(s, decision) == run[s].by = decision /\ run[s].parked

\* C3 (as claimed): a resume of a session whose latest checkpoint does not show
\* active_node = HIL_Node is turned away and starts no driver.
C3_ResumeOutsideReviewRejected ==
    [][\A s \in Sessions, d \in Decisions, c \in SuggestedContents :
          (/\ NoCheckpoint(s) \/ Latest(s).active_node # "HIL_Node"
           /\ resume_session(s, d, c))
              => (resp'.code # 200 /\ UNCHANGED <<Aux, threads, nextTid>>)]_vars

\* C4: once a resume with Approve of a parked session is accepted, its run
\* reaches END through Finalize.
C4_ApproveLeadsToDone ==
    \A s \in Sessions :
        (ResumedParked(s, "Approve") /\ run[s].outcome = "running")
            ~> (ResumedParked(s, "Approve") /\ run[s].outcome = "end")

C4_Witness ==
    \E s \in Sessions :
        /\ ResumedParked(s, "Approve")
        /\ run[s].outcome = "end"
        /\ run[s].last = "Finalize"

\* C5: in the run of an Approve given to a parked session no Drafting runs,
\* iteration_count stays what it was, and Finalize returns the draft that was
\* pending when the approval came.
C5_ApproveFinalizesPendingDraft ==
    \A s \in Sessions :
        ResumedParked(s, "Approve") =>
            /\ run[s].drafts = 0
            /\ run[s].first \in {"none", "Finalize"}
            /\ ~NoCheckpoint(s) => Latest(s).iteration_count
                                     = run[s].prev.iteration_count
            /\ run[s].outcome = "end" =>
                  /\ run[s].final_output.final_draft = run[s].prev.current_draft
                  /\ run[s].final_output.total_iterations
                         = run[s].prev.iteration_count
                  /\ Latest(s).current_draft = run[s].prev.current_draft

C5_Witness ==
    \E s \in Sessions :
        /\ ResumedParked(s, "Approve")
        /\ run[s].outcome = "end"
        /\ run[s].final_output.final_draft = "calm"
        /\ run[s].prev.current_draft = "calm"
        /\ run[s].final_output.total_iterations = 1

\* C6: in the run of a Reject with text t given to a parked session, the
\* intent handed to the graph embeds t, the first node run is Drafting, and
\* after that Drafting iteration_count is one more and draft_history is the
\* old history with the rejected draft appended.
C6_RejectRedrafts ==
    \A s \in Sessions :
        ResumedParked(s, "Reject") =>
            /\ run[s].first \in {"none", "Drafting"}
            /\ \A t \in Tids :
                  (threads[t].sid = s /\ threads[t].pc = "start")
                      => threads[t].input.user_intent
                            = RevisionIntent(run[s].text)
            /\ (run[s].drafts = 1 /\ run[s].last = "Drafting") =>
                  /\ Latest(s).user_intent = RevisionIntent(run[s].text)
                  /\ Latest(s).iteration_count
                         = run[s].prev.iteration_count + 1
                  /\ Latest(s).draft_history
                         = Append(run[s].prev.draft_history,
                                  run[s].prev.current_draft)

C6_Witness ==
    \E s \in Sessions :
        /\ ResumedParked(s, "Reject")
        /\ run[s].drafts = 1
        /\ run[s].last = "Drafting"
        /\ Latest(s).current_draft # run[s].prev.current_draft
        /\ Len(Latest(s).draft_history) = 1

\* C7 (as claimed): the state a resume hands to the graph is the latest
\* checkpoint with human_decision set, and with user_intent rewritten only
\* when the decision is Reject.
C7_ResumeSetsOneField ==
    \A s \in Sessions, t \in Tids :
        (threads[t].sid = s /\ threads[t].pc = "start"
            /\ run[s].by \in Decisions) =>
            /\ threads[t].input.human_decision = run[s].by
            /\ \A f \in Fields \ {"human_decision"} :
                  (f = "user_intent" /\ run[s].by = "Reject")
                     \/ threads[t].input[f] = run[s].prev[f]

\* C8 (as claimed): when a driver has stopped at the human-review point the
\* latest checkpoint has active_node = HIL_Node and no decision.
C8_ParkedCheckpointShowsReview ==
    \A s \in Sessions :
        run[s].outcome = "hil" =>
            /\ Latest(s).active_node = "HIL_Node"
            /\ Latest(s).human_decision \notin Decisions

\* C9: while a session is parked (its driver stopped at the human-review node
\* and no call has been accepted since) no thread can run a stage of it, the
\* only thread that may still be registered is the stopping driver inside its
\* finally clause, and that driver does release the entry.
C9_ParkedHoldsNoDriver ==
    /\ [](\A s \in Sessions :
            run[s].outcome = "hil" =>
                /\ Executing(s) = {}
                /\ \A t \in Tids :
                      (threads[t].sid = s /\ threads[t].pc = "dead")
                          => active_threads[s] # t)
    /\ \A s \in Sessions :
          (run[s].outcome = "hil")
              ~> (run[s].outcome # "hil" \/ active_threads[s] = 0)

C9_Witness ==
    \E s \in Sessions :
        /\ run[s].outcome = "hil"
        /\ active_threads[s] = 0
        /\ \A t \in Tids : threads[t].pc \in {"unborn", "dead"}

\* C10: a step of the status stream leaves the checkpoints, the thread table,
\* the recorded errors and every thread as they were.
C10_StatusIsReadOnly ==
    [][(StreamPoll \/ \E s \in Sessions : StreamOpen(s))
          => UNCHANGED <<Aux, store, active_threads, thread_errors, threads,
                         nextTid, run>>]_vars

\* The stream has yielded a payload while a driver is between two stages.
C10_Witness ==
    /\ stream.open
    /\ \E t \in Tids : threads[t].pc = "invoke" /\ threads[t].task = "Critic"

\* C11 (as claimed): the conditional edge a driver is about to take after its
\* current node leads to a stage and does not raise; with no Approve or Reject
\* the edge after HIL_Node leads back to HIL_Node; and a driver that stopped
\* at the human-review node has recorded no error.
C11_RoutingNeverRaises ==
    \A s \in Sessions :
        /\ \A t \in Tids :
              (threads[t].sid = s /\ Running(t, "HIL_Node")) =>
                  LET state == Merge(Latest(s), hil_node(Latest(s)))
                      next == Destination(HilEnds, route_human_decision(state))
                  IN /\ next \in Stages
                     /\ state.human_decision \notin Decisions
                            => next = "HIL_Node"
        /\ run[s].outcome = "hil" => thread_errors[s] = "none"

\* C12: after Safety the next node is Drafting for every safety_metric below
\* 0.85 and Critic for every safety_metric of 0.85 or more, whatever the other
\* fields hold.
C12_SafetyThresholdIsStrict ==
    router.node = "Safety" =>
        /\ router.state.safety_metric < SAFETY_THRESHOLD
               => router.next = "Drafting"
        /\ router.state.safety_metric >= SAFETY_THRESHOLD
               => router.next = "Critic"

\* A score of exactly 0.85 went to Critic, in a state whose other fields
\* would send every other router elsewhere.
C12_Witness ==
    /\ router.node = "Safety"
    /\ router.state.safety_metric = SAFETY_THRESHOLD
    /\ router.next = "Critic"
    /\ router.state.empathy_metric < EMPATHY_THRESHOLD
    /\ router.state.human_decision = "Approve"
    /\ router.state.blackboard_notes # <<>>

\* The state holds an annotation of severity blocker that is not resolved.
HasUnresolvedBlocker(state) ==
    \E i \in DOMAIN state.blackboard_notes :
        /\ state.blackboard_notes[i].severity = "blocker"
        /\ ~state.blackboard_notes[i].resolved

\* C13 (as claimed): after Critic, a state holding an unresolved blocker
\* annotation is sent to Drafting whatever its scores and iteration_count.
C13_BlockerForcesDraft ==
    (router.node = "Critic" /\ HasUnresolvedBlocker(router.state))
        => router.next = "Drafting"

\* C14: after Critic, with no unresolved blocker, the next node follows the
\* ordered table: empathy below 0.70 -> Drafting; else iteration_count = 1 ->
\* HIL_Node; else iteration_count >= 20 -> Finalize; else HIL_Node.
C14_CriticTable ==
    (router.node = "Critic" /\ ~HasUnresolvedBlocker(router.state)) =>
        LET em == router.state.empathy_metric
            ic == router.state.iteration_count
        IN
        /\ em < EMPATHY_THRESHOLD => router.next = "Drafting"
        /\ (em >= EMPATHY_THRESHOLD /\ ic = 1) => router.next = "HIL_Node"
        /\ (em >= EMPATHY_THRESHOLD /\ ic # 1 /\ ic >= MAX_ITERATIONS)
               => router.next = "Finalize"
        /\ (em >= EMPATHY_THRESHOLD /\ ic # 1 /\ ic < MAX_ITERATIONS)
               => router.next = "HIL_Node"

\* An empathy score of exactly 0.70 at the iteration cap went to Finalize.
C14_Witness ==
    /\ router.node = "Critic"
    /\ ~HasUnresolvedBlocker(router.state)
    /\ router.state.empathy_metric = EMPATHY_THRESHOLD
    /\ router.state.iteration_count = MAX_ITERATIONS
    /\ router.next = "Finalize"

\* The ways a driver run ends: stopped at the human-review node, reached END,
\* a stage raised, or the invoke ran out of steps.
Stopped == {"hil", "end", "failed", "out_of_steps"}

\* C15: every driver run that was started stops: at the human-review node, at
\* END, or with an error recorded in thread_errors, also when every draft
\* scores below a threshold (the invoke then runs out of steps).
C15_DriverRunStops ==
    /\ [](\A s \in Sessions :
            run[s].outcome \in {"failed", "out_of_steps"}
                => thread_errors[s] # "none")
    /\ \A s \in Sessions :
          (run[s].outcome = "running") ~> (run[s].outcome \in Stopped)

\* A run whose drafts all scored below the safety threshold has stopped.
C15_Witness ==
    \E s \in Sessions :
        /\ run[s].outcome = "out_of_steps"
        /\ run[s].drafts >= 2
        /\ run[s].last = "Safety"
        /\ Latest(s).safety_metric < SAFETY_THRESHOLD
        /\ thread_errors[s] = "GraphRecursionError"

\* The session of a thread.
SessionOf(t) == threads[t].sid

\* C16: a Drafting step adds exactly 1 to iteration_count, and a Safety,
\* Critic, HIL_Node or Finalize step leaves it as it was.
C16_DraftCountsOnce ==
    [][\A t \in Tids :
          LET before == Latest(SessionOf(t)).iteration_count
              after == Latest(SessionOf(t))'.iteration_count
          IN
          /\ RunDrafting(t) => after = before + 1
          /\ (RunSafety(t) \/ RunCritic(t) \/ RunHIL(t) \/ RunFinalize(t))
                 => after = before]_vars

\* Two drafts were written in a row, the first of them empty, and Critic has
\* run on the second.
C16_Witness ==
    \E s \in Sessions :
        /\ ~NoCheckpoint(s)
        /\ Latest(s).iteration_count = 2
        /\ Latest(s).draft_history = <<>>
        /\ Latest(s).active_node = "Critic"

\* C17 (as claimed): from one checkpoint of a session to the next,
\* iteration_count never goes down.
C17_IterationNeverDecreases ==
    [][\A s \in Sessions :
          ~NoCheckpoint(s) =>
              Latest(s)'.iteration_count >= Latest(s).iteration_count]_vars

\* h is g, or g with entries appended.
IsPrefix(g, h) == Len(g) <= Len(h) /\ SubSeq(h, 1, Len(g)) = g

\* C18 (as claimed): once a draft has been written, draft_history has one
\* entry less than iteration_count (the number of Drafting steps), and from
\* one checkpoint to the next it stays or grows at its end.
C18_HistoryIsDraftsMinusOne ==
    [][\A s \in Sessions :
          ~NoCheckpoint(s)' =>
              /\ Latest(s)'.iteration_count >= 1 =>
                     Len(Latest(s)'.draft_history)
                         = Latest(s)'.iteration_count - 1
              /\ ~NoCheckpoint(s) =>
                     IsPrefix(Latest(s).draft_history,
                              Latest(s)'.draft_history)]_vars

\* C19: a Drafting step leaves human_decision unset, and a Finalize step that
\* does not come from Critic belongs to the run of an Approve, runs before any
\* Drafting of that run, and finalizes the draft that was pending when the
\* Approve was given.
C19_ApprovalIsNeverStale ==
    [][\A t \in Tids :
          LET s == SessionOf(t) IN
          /\ RunDrafting(t) => Latest(s)'.human_decision = "REVIEW_REQUIRED"
          /\ (RunFinalize(t) /\ run[s].last # "Critic") =>
                 /\ run[s].by = "Approve"
                 /\ run[s].drafts = 0
                 /\ Latest(s).human_decision = "Approve"
                 /\ Latest(s).current_draft = run[s].prev.current_draft]_vars

\* A Reject was given and the Drafting that followed has cleared it.
C19_Witness ==
    \E s \in Sessions :
        /\ run[s].by = "Reject"
        /\ run[s].prev.human_decision = "REVIEW_REQUIRED"
        /\ run[s].drafts = 1
        /\ run[s].last = "Safety"
        /\ Latest(s).human_decision = "REVIEW_REQUIRED"

\* A step that sends the session back to Drafting: Safety or Critic routing
\* to Drafting, or the entry point of a Reject.
RedirectsToDraft(t) ==
    \/ (RunSafety(t) \/ RunCritic(t)) /\ threads'[t].task = "Drafting"
    \/ /\ GraphInput(t)
       /\ threads[t].input.human_decision = "Reject"
       /\ threads'[t].task = "Drafting"

\* C20 (as claimed): every step that sends the session back to Drafting
\* appends one entry to intent_signals, and no step shortens intent_signals.
C20_RedirectIsLogged ==
    [][/\ \A t \in Tids :
             RedirectsToDraft(t) =>
                 Len(intent_signals(Latest(SessionOf(t))'))
                     = Len(intent_signals(Latest(SessionOf(t)))) + 1
       /\ \A s \in Sessions :
             IsPrefix(intent_signals(Latest(s)),
                      intent_signals(Latest(s)'))]_vars

\* The write-set the specification declares for each stage, in the names the
\* program gives the fields.
WriteSet(node) ==
    CASE node = "Drafting" -> { "current_draft", "draft_history",
                                "iteration_count", "user_intent",
                                "human_decision" }
      [] node = "Safety"   -> { "safety_metric", "safety_report" }
      [] node = "Critic"   -> { "empathy_metric", "critic_notes",
                                "blackboard_notes" }
      [] node = "Finalize" -> { "final_output", "status" }

\* The keys of the update a stage returns from `state`.
Returned(node, state) ==
    CASE node = "Drafting" -> DOMAIN drafting_agent_node(state, "calm")
      [] node = "Safety"   -> DOMAIN safety_agent_node(state, SAFETY_THRESHOLD)
      [] node = "Critic"   -> DOMAIN critic_agent_node(state)
      [] node = "Finalize" -> DOMAIN finalize_node(state)

\* The thread t takes the step of `node` in this transition.
Steps(t, node) == Running(t, node) /\ threads'[t] # threads[t]

\* C21: when a stage returns an update with a key outside its declared
\* write-set, the step fails: no checkpoint is written (the key is neither
\* applied nor left out of an otherwise accepted update) and the run ends
\* with a recorded error.
C21_OutOfSetUpdateFailsStep ==
    [][ \A t \in Tids :
          \A node \in {"Drafting", "Safety", "Critic", "Finalize"} :
             LET s == threads[t].sid IN
             (/\ Steps(t, node)
              /\ ~(Returned(node, Latest(s)) \subseteq WriteSet(node)))
             => /\ store' = store
                /\ thread_errors'[s] # "none"
                /\ threads'[t].pc = "finally" ]_vars

\* A call of POST /start_session or POST /resume_session that the
\* specification turns away is made in this transition: a start or a resume
\* of a session whose driver is running, or a resume of a session that has no
\* checkpoint or whose latest run did not stop at the human-review node.
CallToReject ==
    \E s \in Sessions :
       \/ /\ IsRunning(s)
          /\ \E p \in Prompts : start_session(s, p)
       \/ /\ IsRunning(s) \/ NoCheckpoint(s) \/ run[s].outcome # "hil"
          /\ \E d \in Decisions, c \in SuggestedContents :
                resume_session(s, d, c)

\* C22: a StartSession or ResumeSession call that is to be rejected (session
\* already running, session not found, session not awaiting the human)
\* changes nothing: the checkpoints of every session, the active-driver table
\* and the recorded errors are the same after the call as before it.
C22_RejectedCallChangesNothing ==
    [][ CallToReject => UNCHANGED <<store, active_threads, thread_errors>> ]_vars

\* C25: when a stage of a session's run raised, the active_node of the
\* session's latest checkpoint is not the stage that raised: it names a stage
\* the run completed.
C25_FailureKeepsLastCompletedStage ==
    \A s \in Sessions :
       run[s].outcome = "failed" =>
          /\ ~NoCheckpoint(s)
          /\ Latest(s).active_node # run[s].last

\* A stage of the run of thread t raises in this transition.
StageFails(t) ==
    /\ threads[t].pc = "invoke"
    /\ threads'[t].pc = "finally"
    /\ run'[SessionOf(t)].outcome = "failed"

\* The threads created for session s.
ThreadsOf(s) == { t \in Tids : threads[t].sid = s }

\* C24: when a stage of session A raises, A's driver stops and A's status
\* carries the error; the process keeps serving, and the driver threads, the
\* checkpoints and the recorded error of every other session are untouched.
C24_FailureStaysInItsSession ==
    [][ \A t \in Tids :
          StageFails(t) =>
             LET a == SessionOf(t) IN
             /\ thread_errors'[a] # "none"
             /\ ~Running(t, threads[t].task)'
             /\ process' = process
             /\ \A b \in AllSessions \ {a} :
                   /\ store'[b] = store[b]
                   /\ active_threads'[b] = active_threads[b]
                   /\ thread_errors'[b] = thread_errors[b]
                   /\ \A u \in ThreadsOf(b) : threads'[u] = threads[u] ]_vars

\* A stage of one session has raised while another session, with checkpoints
\* of its own and no error, has a driver at work.
C24_Witness ==
    \E a \in AllSessions, b \in AllSessions :
       /\ a # b
       /\ run[a].outcome = "failed"
       /\ thread_errors[a] = "LLMError"
       /\ DriverAlive(b)
       /\ ~NoCheckpoint(b)
       /\ Latest(b).active_node = "Safety"
       /\ thread_errors[b] = "none"

\* C23: a resume whose decision is neither Approve nor Reject is turned away
\* at once: no driver thread is created or registered, no checkpoint is
\* written (human_decision stays what it was) and no recorded error changes.
C23_InvalidDecisionRejected ==
    [][ \A s \in Sessions, d \in InvalidDecisions, c \in SuggestedContents :
          resume_session(s, d, c) =>
             /\ resp'.code = 422
             /\ UNCHANGED <<store, active_threads, thread_errors, threads,
                            nextTid>> ]_vars

\* A resume with an invalid decision was turned away while the session was
\* waiting for the human, its decision still open.
C23_Witness ==
    \E s \in Sessions :
       /\ resp = [sid |-> s, code |-> 422]
       /\ run[s].outcome = "hil"
       /\ ~DriverAlive(s)
       /\ Latest(s).human_decision = "REVIEW_REQUIRED"

\* C26: for a resume and for the status stream, what the caller gets for a
\* session whose checkpoint lacks required fields differs from what it gets
\* for a session without a checkpoint.
C26_MalformedDiffersFromMissing ==
    \A s \in Sessions :
       (~NoCheckpoint(s) /\ Malformed(Latest(s))) =>
          /\ \A d \in Decisions :
                ResumeCheck(Latest(s), d) # ResumeCheck(NoState, d)
          /\ StatusPayload(s, Latest(s)) # StatusPayload(s, NoState)

C30_ParkedSurvivesRestart ==
    /\ [][ (process.phase = "serving" /\ process'.phase = "importing")
              => store' = store ]_vars
    /\ [][ \A s \in Sessions, c \in SuggestedContents :
              (/\ process.phase = "serving"
               /\ s \in process.parked
               /\ run[s].outcome = "hil"
               /\ ~DriverAlive(s)
               /\ resume_session(s, "Approve", c))
              => (resp'.code = 200 /\ DriverAlive(s)') ]_vars
    /\ \A s \in Sessions :
          (/\ s \in process.parked
           /\ ResumedParked(s, "Approve")
           /\ run[s].outcome = "running")
             ~> (/\ run[s].outcome = "end"
                 /\ run[s].final_output.final_draft = run[s].prev.current_draft)

\* The session waited for the human across a restart and was then approved:
\* its run ended with the pending draft and no error.
C30_Witness ==
    \E s \in Sessions :
       /\ process.phase = "serving"
       /\ s \in process.parked
       /\ ResumedParked(s, "Approve")
       /\ run[s].outcome = "end"
       /\ run[s].final_output.final_draft = "calm"
       /\ Latest(s).current_draft = "calm"
       /\ thread_errors[s] = "none"

\* The checkpoint_ids of a reply's entries, in the order of the reply.
ReplyIds(reply) == [i \in DOMAIN reply.checkpoints |->
                      reply.checkpoints[i].checkpoint_id]

\* C28: the table only grows: every row stays as it was and a new row of a
\* session has a checkpoint_id above all of the session's ids; the list of a
\* session's checkpoints holds exactly the ids of its rows, in strictly
\* increasing order; and the read of a resume returns the greatest id.
C28_HistoryAppendOnlyAndOrdered ==
    /\ [][ /\ db.rows \subseteq db'.rows
           /\ \A new \in db'.rows \ db.rows :
                 \A old \in RowsOf(db.rows, new.thread_id) :
                    new.checkpoint_id > old.checkpoint_id ]_vars
    /\ [][ \A s \in AllSessions :
              get_all_checkpoints_for_thread(s) =>
                 LET reply == db'.reply
                     mine == RowsOf(db.rows, s)
                 IN reply.code = 200 =>
                      /\ Len(reply.checkpoints) = Cardinality(mine)
                      /\ { ReplyIds(reply)[i] : i \in DOMAIN reply.checkpoints }
                           = { r.checkpoint_id : r \in mine }
                      /\ \A i, j \in DOMAIN reply.checkpoints :
                            i < j => ReplyIds(reply)[i] < ReplyIds(reply)[j] ]_vars
    /\ [][ \A s \in AllSessions :
              (SaverGet(s) /\ db'.reply.code = 200) =>
                 \A r \in RowsOf(db.rows, s) :
                    r.checkpoint_id <= db'.reply.checkpoint_id ]_vars

\* A session's list was returned with its two checkpoints, written before
\* and after a checkpoint of another session.
C28_Witness ==
    /\ db.reply.op = "list"
    /\ db.reply.code = 200
    /\ ReplyIds(db.reply) = <<1, 3>>
    /\ \E r \in db.rows :
          r.checkpoint_id = 2 /\ r.thread_id # db.reply.thread_id

\* C29: the checkpoint an endpoint returns equals the checkpoint stored in
\* the row it was read from.
C29_ReadReturnsWhatWasStored ==
    (db.reply.op = "get" /\ db.reply.code = 200) =>
        \E r \in db.rows :
           /\ r.checkpoint_id = db.reply.checkpoint_id
           /\ r.checkpoint = db.reply.checkpoint

\* ------------------------------------ a store left by an earlier life
\* The checkpoint a run leaves when it enters the graph at Drafting with
\* `entered` and stops at the human review: Drafting, Safety and Critic
\* completed, the draft passing both gates.
Round(entered) ==
    LET drafted == Merge(entered, drafting_agent_node(entered, "calm"))
        checked == Merge(drafted, safety_agent_node(drafted, SAFETY_THRESHOLD))
        reviewed == Merge(checked, critic_agent_node(checked))
    IN [ user_intent |-> reviewed.user_intent,
         thread_id |-> reviewed.thread_id,
         current_draft |-> reviewed.current_draft,
         draft_history |-> reviewed.draft_history,
         iteration_count |-> reviewed.iteration_count,
         active_node |-> reviewed.active_node,
         safety_metric |-> reviewed.safety_metric,
         empathy_metric |-> reviewed.empathy_metric,
         next_node |-> reviewed.next_node,
         human_decision |-> reviewed.human_decision ]

\* The parked checkpoint after k more resume_session calls with Reject, each
\* accepted and each run stopping at the human review again.
RECURSIVE RejectRounds(_, _, _)
RejectRounds(k, parked, suggested_content) ==
    IF k = 0 THEN parked
    ELSE IF k = 1
    THEN Round(ResumeState(parked, "Reject", suggested_content))
    ELSE LET half == RejectRounds(k \div 2, parked, suggested_content) IN
         IF ResumeCheck(half, "Reject") = 200
         THEN RejectRounds(k - (k \div 2), half, suggested_content)
         ELSE half

\* The checkpoint a session is left with when its run stops at the human
\* review for the n-th time.
ParkedState(n, user_prompt, suggested_content) ==
    RejectRounds(n - 1, Round(create_initial_state(user_prompt, "s1")),
                 suggested_content)

\* The checkpoint a session is left with when its first run parks at the
\* human review, a resume_session with Approve is accepted and Finalize
\* completes.
FinishedState(user_prompt, suggested_content) ==
    LET reviewed == ParkedState(1, user_prompt, suggested_content)
        approved == ResumeState(reviewed, "Approve", suggested_content)
    IN Merge(approved, finalize_node(approved))

\* What the store file holds for the session when the server comes up after
\* an earlier life of the process: a finalized session, or a session parked
\* one draft short of the iteration cap.
StoredByEarlierLife ==
    { FinishedState(p, c) : p \in Prompts, c \in SuggestedContents }
    \cup { ParkedState(MAX_ITERATIONS - 1, p, c) :
              p \in Prompts, c \in SuggestedContents }

\* The checkpoints outlive the process, the thread table does not.
StoredInit ==
    /\ \E found \in StoredByEarlierLife :
          store = [s \in AllSessions |->
                     [latest |-> IF s \in Sessions THEN found ELSE NoState]]
    /\ active_threads = [s \in AllSessions |-> 0]
    /\ thread_errors = [s \in AllSessions |-> "none"]
    /\ threads = [t \in Tids |-> NoThread]
    /\ nextTid = 0
    /\ resp = [sid |-> "none", code |-> 0]
    /\ stream = [open |-> FALSE, sid |-> "none"]
    /\ run = [s \in AllSessions |-> NoRun]
    /\ router = NoRouter
    /\ process = Serving
    /\ db = NoDb
    /\ mcp = NoMcp

StoredSpec == StoredInit /\ [][Next]_vars

\* The latest checkpoint of the session is the one Finalize wrote.
Done(s) == ~NoCheckpoint(s) /\ Latest(s).active_node = "Finalize"

\* The checkpoint a closed session starts from is one the server writes.
FinishedStateIsWritten ==
    \E p \in Prompts, c \in SuggestedContents : Latest("s1") = FinishedState(p, c)

\* C31 (as claimed): once the session's latest checkpoint is the one Finalize
\* wrote, it stays so whatever start_session and resume_session calls follow,
\* and no driver thread of the session executes a stage again; so Finalize
\* runs at most once per session.
C31_DoneIsTerminal ==
    [][\A s \in Sessions :
          Done(s) =>
             /\ Done(s)'
             /\ \A t \in Tids, node \in Stages :
                   SessionOf(t) = s => ~Steps(t, node)]_vars

\* C32 (as claimed): a run_cbt_workflow call that reached the human-review
\* node and in which no stage failed returns only after it approved exactly
\* once and Finalize ran: the session's latest checkpoint is the one Finalize
\* wrote and the returned final_output is not None.
C32_McpRunsToFinalize ==
    (mcp.pc = "returned" /\ mcp.reached_hil /\ ~mcp.failed) =>
        /\ mcp.approvals = 1
        /\ mcp.finalized
        /\ Done(mcp.sid)
        /\ mcp.result.final_output # "None"

\* The transition table the specification gives, in the names of the nodes.
TableEdges ==
    { <<"Drafting", "Safety">>,
      <<"Safety", "Drafting">>, <<"Safety", "Critic">>,
      <<"Critic", "Drafting">>, <<"Critic", "HIL_Node">>,
      <<"Critic", "Finalize">>,
      <<"HIL_Node", "Finalize">>, <<"HIL_Node", "Drafting">> }

\* The stage the session executed last before the run r of a resume began:
\* the human-review node when the run before stopped there, else the stage
\* that wrote the checkpoint the resume read.
StageBefore(r) == IF r.parked THEN "HIL_Node" ELSE r.prev.active_node

\* C33 (as claimed): a stage a driver thread executes follows the stage the
\* session executed before it along an edge of the transition table, within
\* a run and from the last stage of one run to the first stage of the run a
\* resume_session starts; the first stage after a start_session is Drafting.
C33_StagesFollowTheTable ==
    [][\A t \in Tids, node \in Stages :
          Steps(t, node) =>
             LET r == run[SessionOf(t)] IN
             IF r.last # "none" THEN <<r.last, node>> \in TableEdges
             ELSE IF r.by = "start" THEN node = "Drafting"
             ELSE <<StageBefore(r), node>> \in TableEdges]_vars

\* C34: a driver thread executes Finalize only in a run that a resume_session
\* with Approve started, on the draft that was pending when the Approve was
\* given, or right after a Critic step that left a draft passing the empathy
\* gate (and the safety gate before it) with iteration_count at the cap of
\* 20; so a session whose latest checkpoint Finalize wrote with
\* iteration_count below 20, or with safety_metric below 0.85, holds an
\* Approve.
C34_FinalizeNeedsApproveOrCap ==
    [][/\ \A t \in Tids :
             Steps(t, "Finalize") =>
                LET s == SessionOf(t)
                    state == Latest(s)
                IN \/ /\ run[s].by = "Approve"
                      /\ state.human_decision = "Approve"
                      /\ state.current_draft = run[s].prev.current_draft
                   \/ /\ run[s].last = "Critic"
                      /\ state.empathy_metric >= EMPATHY_THRESHOLD
                      /\ state.safety_metric >= SAFETY_THRESHOLD
                      /\ state.iteration_count >= MAX_ITERATIONS
       /\ \A s \in Sessions :
             (/\ Done(s)'
              /\ \/ Latest(s)'.iteration_count < MAX_ITERATIONS
                 \/ Latest(s)'.safety_metric < SAFETY_THRESHOLD)
             => Latest(s)'.human_decision = "Approve"]_vars

\* A session was finalized through the iteration cap, with no Approve.
C34_Witness ==
    \E s \in Sessions :
       /\ Done(s)
       /\ Latest(s).human_decision # "Approve"
       /\ Latest(s).iteration_count >= MAX_ITERATIONS
       /\ run[s].outcome = "end"

\* C35 (as claimed): the status view derived from a session's latest
\* checkpoint reports is_complete (status "complete") exactly when that
\* checkpoint is the one Finalize wrote: not before Finalize has run, and also
\* for a session finalized through the iteration cap.
C35_CompleteIffFinalized ==
    \A s \in Sessions :
       LET view == StatusPayload(s, Latest(s)) IN
       /\ view.is_complete <=> Done(s)
       /\ view.status = "complete" <=> Done(s)

\* C36 (as claimed): the Drafting step that opens a run started by a
\* resume_session with Reject, on the intent the resume rewrote into a
\* revision instruction, takes the human-override branch; every other
\* Drafting step does not.
C36_RejectIsReadAsHumanRevision ==
    [][\A t \in Tids :
          Steps(t, "Drafting") =>
             LET s == SessionOf(t)
                 state == Latest(s)
                 after_reject == /\ run[s].by = "Reject"
                                 /\ run[s].last = "none"
                                 /\ state.user_intent = RevisionIntent(run[s].text)
             IN DraftingTask(state) = "human_override" <=> after_reject]_vars

\* C37 (as claimed): a Safety step on a draft holding a prohibited phrase,
\* whose LLM call returned, completes: it writes a checkpoint with
\* active_node "Safety" and safety_metric at most 0.2, and the thread goes
\* back to Drafting, not on to Critic.
C37_ProhibitedDraftGoesBackToDraft ==
    [][\A t \in Tids :
          LET s == SessionOf(t) IN
          (/\ Steps(t, "Safety")
           /\ SafetyViolations(Latest(s))
           /\ thread_errors'[s] # "LLMError")
          => /\ Latest(s)'.active_node = "Safety"
             /\ Latest(s)'.safety_metric <= PENALTY_SCORE
             /\ threads'[t].pc = "invoke"
             /\ threads'[t].task = "Drafting"]_vars

\* C38 (as claimed): a GET /checkpoints/{checkpoint_id} for an id the table
\* does not hold is answered 404, as a GET /threads/{thread_id}/checkpoints
\* for a thread without rows is.
C38_MissingCheckpointIsNotFound ==
    [][/\ \A id \in 1..MaxRows :
             (get_checkpoint(id)
              /\ { r \in db.rows : r.checkpoint_id = id } = {})
             => db'.reply.code = 404
       /\ \A s \in AllSessions :
             (get_all_checkpoints_for_thread(s) /\ RowsOf(db.rows, s) = {})
             => db'.reply.code = 404]_vars

\* A turn of the status stream's loop for session s is taken.
Turn(s) == FeedOpen(s) \/ (FeedPoll /\ stream.sid = s)

\* C39: a turn of the status stream taken while a driver of the session is
\* alive leaves the stream running, and a turn taken while none is alive ends
\* it, with the status "halted" or "complete", also when the session has no
\* checkpoint; a turn of a running stream that yields a payload yields one
\* that differs from the payload yielded before it; and a stream that is
\* running eventually ends.
C39_StreamEndsWithTheDriver ==
    /\ [][\A s \in Sessions :
             Turn(s) =>
                /\ stream'.open <=> DriverAlive(s)
                /\ ~stream'.open =>
                      stream'.last_payload.status \in {"halted", "complete"}
                /\ (stream.open /\ stream'.yielded) =>
                      stream'.last_payload # stream.last_payload]_vars
    /\ stream.open ~> ~stream.open

\* A stream that yielded "complete" while the approved run's driver was still
\* alive has kept running, and has ended at the first turn after the driver
\* ended, with nothing new to yield.
C39_Witness ==
    \E s \in Sessions :
       /\ ~stream.open
       /\ stream.sid = s
       /\ ~DriverAlive(s)
       /\ run[s].outcome = "end"
       /\ ~stream.yielded
       /\ stream.last_payload.status = "complete"

====
